---- MODULE Spec2Model ----
(***************************************************************************)
(* The table storage engine of Rust-Database: the axum request handlers of *)
(* server/src/main.rs, the AppState they share, and the snapshot db.json.  *)
(*                                                                         *)
(* Every `state.x().await` of a handler takes the tokio Mutex for the      *)
(* duration of that one call, so a handler is a sequence of atomic steps,  *)
(* one per call; what a handler computes between two calls works on its    *)
(* own clone of the table and is folded into the preceding step.           *)
(* SpecLock takes the calls apart into acquiring the Mutex, the call's own *)
(* step and releasing it, which is what makes one step per call sound.     *)
(* Column.foreign_key is carried by no handler logic and is left out.      *)
(***************************************************************************)
EXTENDS Integers, Sequences, FiniteSets, TLC

VARIABLES
    tables,     \* AppState.tables: Vec<Table> behind the Mutex
    disk,       \* the content of db.json
    pc,         \* per task: the call the handler is about to make
    req,        \* per task: the request payload
    table,      \* per task: the handler's local `table` / `new_table`
    dropped,    \* per task: what its last state.drop_table() returned
    contents,   \* per task: save()'s local `contents`
    ci,         \* per task: create_table's position in insert_column_requests
    resp,       \* per task: the response sent
    out,        \* per task: the body of a successful response
    started,    \* number of requests received so far
    live,       \* history: the names created or loaded that no request since
                \* has asked to drop or to rename away
    lock        \* the task that holds the Mutex of AppState.tables, 0 when free

vars == <<tables, disk, pc, req, table, dropped, contents, ci, resp, out, started, live, lock>>

\* ------------------------------------------------------------------ bounds

NumTasks == 2
\* requests received in all, when several are in flight and when one is
MaxRequests == 2
MaxSeqRequests == 4

Tasks == 1..NumTasks
SeqTasks == {1}

\* ------------------------------------------------------------------ Value

StrV(s) == [kind |-> "Str", i |-> 0, s |-> s]
BoolV(b) == [kind |-> "Bool", i |-> IF b THEN 1 ELSE 0, s |-> ""]
IntV(n) == [kind |-> "Int", i |-> n, s |-> ""]
\* a Float is held in tenths: FloatV(15) is 1.5
FloatV(n) == [kind |-> "Float", i |-> n, s |-> ""]
NullV == [kind |-> "Null", i |-> 0, s |-> ""]

\* mutant: a text that reads as a number becomes an Int
ValueFromStringTyped(s) == IF s = "9" THEN IntV(9) ELSE StrV(s)

\* impl From<String> for Value
ValueFromString(s) == StrV(s)

\* mutant: a missing value becomes the empty text
ValueFromNoneAsText == StrV("")

\* impl From<Option<&str>> for Value, at its one use: row.add_value(None)
ValueFromNone == NullV

Digit(d) ==
    CASE d = 0 -> "0" [] d = 1 -> "1" [] d = 2 -> "2" [] d = 3 -> "3"
      [] d = 4 -> "4" [] d = 5 -> "5" [] d = 6 -> "6" [] d = 7 -> "7"
      [] d = 8 -> "8" [] d = 9 -> "9"

RECURSIVE NatToString(_)
NatToString(n) ==
    IF n < 10 THEN Digit(n) ELSE NatToString(n \div 10) \o Digit(n % 10)

\* i64::to_string
IntToString(n) == IF n < 0 THEN "-" \o NatToString(-n) ELSE NatToString(n)

\* f64::to_string of a value held in tenths: 1.5 -> "1.5", 1.0 -> "1"
FloatToString(n) ==
    LET a == IF n < 0 THEN -n ELSE n
        sign == IF n < 0 THEN "-" ELSE ""
    IN  IF a % 10 = 0 THEN sign \o NatToString(a \div 10)
        ELSE sign \o NatToString(a \div 10) \o "." \o Digit(a % 10)

\* Option<String>
None == [some |-> FALSE, s |-> ""]
Some(s) == [some |-> TRUE, s |-> s]

\* Value::as_string
as_string(v) ==
    CASE v.kind = "Str" -> Some(v.s)
      [] v.kind = "Bool" -> Some(IF v.i = 1 THEN "true" ELSE "false")
      [] v.kind = "Int" -> Some(IntToString(v.i))
      [] v.kind = "Float" -> Some(FloatToString(v.i))
      [] v.kind = "Null" -> None

\* Option::unwrap_or_default
unwrap_or_default(o) == IF o.some THEN o.s ELSE ""

\* ------------------------------------------------------- Column, Row, Table

\* Column::new: checks nothing
ColumnNew(key, primary_key, non_null, unique) ==
    [key |-> key, primary_key |-> primary_key, non_null |-> non_null, unique |-> unique]

\* a Row is its `values`; Row::add_value
add_value(row, v) == Append(row, v)

\* Table { name, columns: Vec::new(), rows: Vec::new() }
TableNew(name) == [name |-> name, columns |-> <<>>, rows |-> <<>>]

\* mutant: the new column is put in front of the others
add_column_in_front(t, column) == [t EXCEPT !.columns = <<column>> \o @]

\* Table::add_column: checks nothing
add_column(t, column) == [t EXCEPT !.columns = Append(@, column)]

\* Table::add_row
add_row(t, row) == [t EXCEPT !.rows = Append(@, row)]

\* table.columns.iter().position(|col| col.key == key): 0 stands for None
ColumnPosition(columns, key) ==
    LET hits == {i \in 1..Len(columns) : columns[i].key = key}
    IN  IF hits = {} THEN 0 ELSE CHOOSE i \in hits : \A j \in hits : i <= j

\* ---------------------------------------------------------------- AppState

\* lock.iter().position(|table| table.name == table_name): 0 stands for None
TablePosition(ts, name) ==
    LET hits == {i \in 1..Len(ts) : ts[i].name = name}
    IN  IF hits = {} THEN 0 ELSE CHOOSE i \in hits : \A j \in hits : i <= j

\* AppState::get: Option<Table> as a sequence of length 0 or 1
AppGet(ts, name) ==
    IF TablePosition(ts, name) = 0 THEN <<>> ELSE <<ts[TablePosition(ts, name)]>>

\* AppState::get_all
AppGetAll(ts) == ts

\* AppState::create: pushes, checks nothing
AppCreate(ts, t) == Append(ts, t)

\* mutant: when the name is found, the first table of the collection goes
AppDropFirstTable(ts, name) == IF TablePosition(ts, name) = 0 THEN ts ELSE Tail(ts)

\* AppState::drop_table: the collection after the call
AppDrop(ts, name) ==
    LET k == TablePosition(ts, name)
    IN  IF k = 0 THEN ts
        ELSE [i \in 1..(Len(ts) - 1) |-> IF i < k THEN ts[i] ELSE ts[i + 1]]

\* AppState::drop_table: the value it returns
AppDropResult(ts, name) == TablePosition(ts, name) # 0

\* ------------------------------------------------------ select and update

\* Option<Vec<String>> of SelectRequest.columns
NoColumns == [some |-> FALSE, names |-> <<>>]
SomeColumns(names) == [some |-> TRUE, names |-> names]

\* Condition { column, value }; Option<Condition> is a sequence of length 0 or 1
Condition(column, value) == [column |-> column, value |-> value]

\* UpdateColumnRequest { column, value }
UpdateColumn(column, value) == [column |-> column, value |-> value]

\* Result<Vec<Row>, String>, and the panic of an index out of a row's bounds
Ok(rows) == [status |-> "Ok", rows |-> rows, column |-> ""]
Err(column) == [status |-> "Err", rows |-> <<>>, column |-> column]
Panic == [status |-> "Panic", rows |-> <<>>, column |-> ""]

\* mutant: each requested value is put in front of those already selected
RECURSIVE ProjectRowReversed(_, _, _, _, _)
ProjectRowReversed(t, row, names, j, acc) ==
    IF j > Len(names) THEN Ok(<<acc>>)
    ELSE LET col_index == ColumnPosition(t.columns, names[j])
         IN  IF col_index = 0 THEN Err(names[j])
             ELSE IF col_index > Len(row) THEN Panic
             ELSE ProjectRowReversed(t, row, names, j + 1, <<row[col_index]>> \o acc)

\* select_rows, the projection of one retained row from requested name j on
RECURSIVE ProjectRow(_, _, _, _, _)
ProjectRow(t, row, names, j, acc) ==
    IF j > Len(names) THEN Ok(<<acc>>)
    ELSE LET col_index == ColumnPosition(t.columns, names[j])
         IN  IF col_index = 0 THEN Err(names[j])
             ELSE IF col_index > Len(row) THEN Panic
             ELSE ProjectRow(t, row, names, j + 1, add_value(acc, row[col_index]))

\* select_rows, the condition test of one row: "keep", "skip", "err" or "panic"
RowMatch(t, row, condition) ==
    IF condition = <<>> THEN "keep"
    ELSE LET col_index == ColumnPosition(t.columns, condition[1].column)
         IN  IF col_index = 0 THEN "err"
             ELSE IF col_index > Len(row) THEN "panic"
             ELSE IF unwrap_or_default(as_string(row[col_index])) # condition[1].value
                  THEN "skip"
             ELSE "keep"

\* select_rows, the loop over table.rows from row i on
RECURSIVE SelectFrom(_, _, _, _, _)
SelectFrom(t, columns, condition, i, rows) ==
    IF i > Len(t.rows) THEN Ok(rows)
    ELSE LET row == t.rows[i]
             m == RowMatch(t, row, condition)
         IN  CASE m = "err" -> Err(condition[1].column)
               [] m = "panic" -> Panic
               [] m = "skip" -> SelectFrom(t, columns, condition, i + 1, rows)
               [] m = "keep" ->
                    LET sel == IF columns.some
                               THEN ProjectRow(t, row, columns.names, 1, <<>>)
                               ELSE Ok(<<row>>)
                    IN  IF sel.status = "Ok"
                        THEN SelectFrom(t, columns, condition, i + 1, Append(rows, sel.rows[1]))
                        ELSE sel

select_rows(t, columns, condition) == SelectFrom(t, columns, condition, 1, <<>>)

\* update_table, the loop over payload.updates for one selected row
RECURSIVE UpdateSelectedRow(_, _, _, _)
UpdateSelectedRow(t, row, updates, j) ==
    IF j > Len(updates) THEN "ok"
    ELSE LET col_index == ColumnPosition(t.columns, updates[j].column)
         IN  IF col_index = 0 THEN "err:" \o updates[j].column
             ELSE IF col_index > Len(row) THEN "panic"
             ELSE UpdateSelectedRow(t, row, updates, j + 1)

\* update_table, the loop over selected_rows: "ok", "panic" or "err:<column>"
RECURSIVE UpdateSelectedRows(_, _, _, _)
UpdateSelectedRows(t, selected_rows, updates, i) ==
    IF i > Len(selected_rows) THEN "ok"
    ELSE LET r == UpdateSelectedRow(t, selected_rows[i], updates, 1)
         IN  IF r = "ok" THEN UpdateSelectedRows(t, selected_rows, updates, i + 1) ELSE r

\* update_table, the inner `for update in &payload.updates` on one table row
RECURSIVE ApplyUpdates(_, _, _, _)
ApplyUpdates(t, row, updates, j) ==
    IF j > Len(updates) THEN row
    ELSE LET update_col_index == ColumnPosition(t.columns, updates[j].column)
         IN  IF update_col_index # 0
             THEN ApplyUpdates(t, [row EXCEPT ![update_col_index] =
                                      ValueFromString(updates[j].value)], updates, j + 1)
             ELSE ApplyUpdates(t, row, updates, j + 1)

\* mutant: the updates are applied to every row, the condition untested
ApplyToRowUnconditional(t, row, condition, updates) == ApplyUpdates(t, row, updates, 1)

\* update_table, "Apply the updates back to the original table rows": one row
ApplyToRow(t, row, condition, updates) ==
    IF condition # <<>>
    THEN LET col_index == ColumnPosition(t.columns, condition[1].column)
         IN  IF col_index # 0
                /\ unwrap_or_default(as_string(row[col_index])) = condition[1].value
             THEN ApplyUpdates(t, row, updates, 1)
             ELSE row
    ELSE row

\* update_table, the rows of the table it goes on to store
UpdatedRows(t, condition, updates) ==
    [i \in 1..Len(t.rows) |-> ApplyToRow(t, t.rows[i], condition, updates)]

\* update_table between its get and its drop: what it answers, or the table to store
UpdateOutcome(t, condition, updates) ==
    LET rows == select_rows(t, NoColumns, condition)
    IN  CASE rows.status = "Err" -> [status |-> "ColumnNotFound", table |-> t]
          [] rows.status = "Panic" -> [status |-> "Panic", table |-> t]
          [] OTHER ->
               LET r == UpdateSelectedRows(t, rows.rows, updates, 1)
               IN  CASE r = "ok" -> [status |-> "Ok",
                                       table |-> [t EXCEPT !.rows = UpdatedRows(t, condition, updates)]]
                     [] r = "panic" -> [status |-> "Panic", table |-> t]
                     [] OTHER -> [status |-> "ColumnNotFound", table |-> t]

\* ------------------------------------------------------------ the snapshot

MaxNumeral == 9

\* serde_json's text of an f64 held in tenths: 1.5 -> "1.5", 1.0 -> "1.0"
FloatToJson(n) ==
    LET a == IF n < 0 THEN -n ELSE n
    IN  (IF n < 0 THEN "-" ELSE "") \o NatToString(a \div 10) \o "." \o Digit(a % 10)

\* mutant: Null is written as the empty string
JsonOfValueNullAsText(v) ==
    CASE v.kind = "Str" -> [tag |-> "Str", text |-> v.s]
      [] v.kind = "Bool" -> [tag |-> "Bool", text |-> IF v.i = 1 THEN "true" ELSE "false"]
      [] v.kind = "Int" -> [tag |-> "Int", text |-> IntToString(v.i)]
      [] v.kind = "Float" -> [tag |-> "Float", text |-> FloatToJson(v.i)]
      [] v.kind = "Null" -> [tag |-> "Str", text |-> ""]

\* #[derive(Serialize)] enum Value: the variant's tag and the text of its content
JsonOfValue(v) ==
    CASE v.kind = "Str" -> [tag |-> "Str", text |-> v.s]
      [] v.kind = "Bool" -> [tag |-> "Bool", text |-> IF v.i = 1 THEN "true" ELSE "false"]
      [] v.kind = "Int" -> [tag |-> "Int", text |-> IntToString(v.i)]
      [] v.kind = "Float" -> [tag |-> "Float", text |-> FloatToJson(v.i)]
      [] v.kind = "Null" -> [tag |-> "Null", text |-> ""]

\* #[derive(Deserialize)] enum Value: numerals are parsed back from their text
ValueOfJson(j) ==
    CASE j.tag = "Str" -> StrV(j.text)
      [] j.tag = "Bool" -> BoolV(j.text = "true")
      [] j.tag = "Int" ->
           IntV(CHOOSE n \in (-MaxNumeral)..MaxNumeral : IntToString(n) = j.text)
      [] j.tag = "Float" ->
           FloatV(CHOOSE n \in (-10 * MaxNumeral)..(10 * MaxNumeral) : FloatToJson(n) = j.text)
      [] j.tag = "Null" -> NullV

\* serde_json::to_string(&tables)
Serialize(ts) ==
    [i \in 1..Len(ts) |->
        [name |-> ts[i].name,
         columns |-> ts[i].columns,
         rows |-> [r \in 1..Len(ts[i].rows) |->
                     [c \in 1..Len(ts[i].rows[r]) |-> JsonOfValue(ts[i].rows[r][c])]]]]

\* serde_json::from_str::<Vec<Table>>(&contents)
Deserialize(doc) ==
    [i \in 1..Len(doc) |->
        [name |-> doc[i].name,
         columns |-> doc[i].columns,
         rows |-> [r \in 1..Len(doc[i].rows) |->
                     [c \in 1..Len(doc[i].rows[r]) |-> ValueOfJson(doc[i].rows[r][c])]]]]

\* db.json: absent, not a JSON array of tables, or one
NoFile == [file |-> "absent", doc |-> <<>>]
Malformed == [file |-> "malformed", doc |-> <<>>]
JsonFile(doc) == [file |-> "json", doc |-> doc]

\* mutant: the server starts from the empty collection whatever the file holds
LoadNothing(d) == <<>>

\* AppState::load().await.unwrap_or_else(|_| AppState::new())
Load(d) == IF d.file = "json" THEN Deserialize(d.doc) ELSE <<>>

\* ------------------------------------------------------------ the requests

Request(kind, name, new_name, column, row, columns, condition, updates, column_requests) ==
    [kind |-> kind, name |-> name, new_name |-> new_name, column |-> column, row |-> row,
     columns |-> columns, condition |-> condition, updates |-> updates,
     column_requests |-> column_requests]

NoColumn == ColumnNew("", FALSE, FALSE, FALSE)
NoRequest == Request("", "", "", NoColumn, <<>>, NoColumns, <<>>, <<>>, <<>>)
NoTable == TableNew("")

ColA == ColumnNew("a", TRUE, TRUE, TRUE)
ColB == ColumnNew("b", FALSE, FALSE, FALSE)

Names == {"t", "u"}
RowNames == {"t"}
\* a primary key that is neither non_null nor unique
ColC == ColumnNew("c", TRUE, FALSE, FALSE)
ColumnInputs == {ColA, ColB, ColC}
RowInputs == {<<>>, <<IntV(1)>>, <<IntV(2), StrV("x")>>, <<FloatV(-15), BoolV(TRUE), IntV(-3)>>}
\* no condition, one on a column of the seed, one on the text of a Null, and
\* one on a column no request adds
ConditionInputs ==
    {<<>>, <<Condition("a", "1")>>, <<Condition("b", "")>>, <<Condition("z", "1")>>}
ProjectionInputs == {NoColumns, SomeColumns(<<"b", "a">>), SomeColumns(<<"z">>)}
UpdateInputs == {<<UpdateColumn("b", "9")>>, <<UpdateColumn("z", "9")>>}

CreateRequests == {Request("create", n, "", NoColumn, <<>>, NoColumns, <<>>, <<>>, <<>>) : n \in Names}
CreateTableRequests ==
    {Request("create_table", n, "", NoColumn, <<>>, NoColumns, <<>>, <<>>, <<ColA, ColB>>) : n \in RowNames}
DropTableRequests == {Request("drop_table", n, "", NoColumn, <<>>, NoColumns, <<>>, <<>>, <<>>) : n \in Names}
RenameTableRequests ==
    {Request("rename_table", n, m, NoColumn, <<>>, NoColumns, <<>>, <<>>, <<>>) : n \in Names, m \in Names}
InsertColumnRequests ==
    {Request("insert_column", n, "", c, <<>>, NoColumns, <<>>, <<>>, <<>>) : n \in RowNames, c \in ColumnInputs}
InsertRowRequests ==
    {Request("insert_row", n, "", NoColumn, r, NoColumns, <<>>, <<>>, <<>>) : n \in RowNames, r \in RowInputs}
SelectRequests ==
    {Request("select", n, "", NoColumn, <<>>, cs, c, <<>>, <<>>) :
        n \in RowNames, cs \in ProjectionInputs, c \in ConditionInputs}
UpdateRequests ==
    {Request("update_table", n, "", NoColumn, <<>>, NoColumns, c, u, <<>>) :
        n \in RowNames, c \in ConditionInputs, u \in UpdateInputs}

Requests ==
    CreateRequests \cup CreateTableRequests \cup DropTableRequests \cup RenameTableRequests
    \cup InsertColumnRequests \cup InsertRowRequests \cup SelectRequests \cup UpdateRequests

\* a snapshot an earlier run of the server left behind
SeedTable == [name |-> "t", columns |-> <<ColA, ColB>>, rows |-> <<<<IntV(1), NullV>>>>]
\* another: t as create, insert_column a and two insert_row leave it
SeedOneColumn == [name |-> "t", columns |-> <<ColA>>, rows |-> <<<<IntV(1)>>, <<IntV(2)>>>>]
InitialSnapshots ==
    {NoFile, Malformed, JsonFile(Serialize(<<SeedTable>>)), JsonFile(Serialize(<<SeedOneColumn>>))}

\* ------------------------------------------------------------------- Init

\* the server has started on one of the given snapshots
InitFrom(snapshots) ==
    /\ disk \in snapshots
    /\ tables = Load(disk)
    /\ pc = [p \in Tasks |-> "idle"]
    /\ req = [p \in Tasks |-> NoRequest]
    /\ table = [p \in Tasks |-> NoTable]
    /\ dropped = [p \in Tasks |-> FALSE]
    /\ contents = [p \in Tasks |-> <<>>]
    /\ ci = [p \in Tasks |-> 0]
    /\ resp = [p \in Tasks |-> ""]
    /\ out = [p \in Tasks |-> <<>>]
    /\ started = 0
    /\ live = {tables[i].name : i \in 1..Len(tables)}
    /\ lock = 0

Init == InitFrom(InitialSnapshots)

\* ------------------------------------------------------------ the handlers

\* a handler returns its response; its locals go out of scope
Respond(p, r, body) ==
    /\ pc' = [pc EXCEPT ![p] = "done"]
    /\ resp' = [resp EXCEPT ![p] = r]
    /\ out' = [out EXCEPT ![p] = body]
    /\ table' = [table EXCEPT ![p] = NoTable]
    /\ dropped' = [dropped EXCEPT ![p] = FALSE]
    /\ contents' = [contents EXCEPT ![p] = <<>>]
    /\ ci' = [ci EXCEPT ![p] = 0]

Goto(p, label) == pc' = [pc EXCEPT ![p] = label]

\* axum hands a request to a task; drop_table makes no get
Receive(p, max) ==
    /\ pc[p] \in {"idle", "done"}
    /\ started < max
    /\ \E r \in Requests :
         /\ req' = [req EXCEPT ![p] = r]
         /\ Goto(p, IF r.kind = "drop_table" THEN "drop" ELSE "get")
         /\ live' = IF r.kind \in {"drop_table", "rename_table"} THEN live \ {r.name} ELSE live
    /\ started' = started + 1
    /\ resp' = [resp EXCEPT ![p] = ""]
    /\ out' = [out EXCEPT ![p] = <<>>]
    /\ UNCHANGED <<tables, disk, table, dropped, contents, ci, lock>>

At(p, kind, label) == req[p].kind = kind /\ pc[p] = label

\* mutant: create makes its table without looking the name up
create_get_unchecked(p) ==
    /\ At(p, "create", "get")
    /\ table' = [table EXCEPT ![p] = TableNew(req[p].name)]
    /\ Goto(p, "create")
    /\ UNCHANGED <<dropped, contents, ci, resp, out>>
    /\ UNCHANGED <<tables, disk, req, started, live, lock>>

\* create: state.get(&table_name).await.is_some()
create_get(p) ==
    /\ At(p, "create", "get")
    /\ IF AppGet(tables, req[p].name) # <<>>
       THEN Respond(p, "TableAlreadyExists", <<>>)
       ELSE /\ table' = [table EXCEPT ![p] = TableNew(req[p].name)]
            /\ Goto(p, "create")
            /\ UNCHANGED <<dropped, contents, ci, resp, out>>
    /\ UNCHANGED <<tables, disk, req, started, live, lock>>

\* create: state.create(new_table.clone()).await
create_create(p) ==
    /\ At(p, "create", "create")
    /\ tables' = AppCreate(tables, table[p])
    /\ live' = live \cup {table[p].name}
    /\ Goto(p, "save")
    /\ UNCHANGED <<disk, req, table, dropped, contents, ci, resp, out, started, lock>>

\* mutant: drop_table saves and answers OK whatever state.drop_table returned
drop_table_drop_unchecked(p) ==
    /\ At(p, "drop_table", "drop")
    /\ tables' = AppDrop(tables, req[p].name)
    /\ Goto(p, "save")
    /\ live' = live \ {req[p].name}
    /\ UNCHANGED <<disk, req, table, dropped, contents, ci, resp, out, started, lock>>

\* drop_table: state.drop_table(&table_name).await
drop_table_drop(p) ==
    /\ At(p, "drop_table", "drop")
    /\ tables' = AppDrop(tables, req[p].name)
    /\ IF AppDropResult(tables, req[p].name)
       THEN /\ Goto(p, "save")
            /\ UNCHANGED <<table, dropped, contents, ci, resp, out>>
       ELSE Respond(p, "TableNotFound", <<>>)
    /\ live' = live \ {req[p].name}
    /\ UNCHANGED <<disk, req, started, lock>>

\* rename_table: state.get(&current_name).await, table.name = new_name
rename_table_get(p) ==
    /\ At(p, "rename_table", "get")
    /\ IF AppGet(tables, req[p].name) = <<>>
       THEN Respond(p, "TableNotFound", <<>>)
       ELSE /\ table' = [table EXCEPT ![p] =
                           [AppGet(tables, req[p].name)[1] EXCEPT !.name = req[p].new_name]]
            /\ Goto(p, "drop")
            /\ UNCHANGED <<dropped, contents, ci, resp, out>>
    /\ UNCHANGED <<tables, disk, req, started, live, lock>>

\* mutant: rename_table drops the new name
rename_table_drop_new_name(p) ==
    /\ At(p, "rename_table", "drop")
    /\ tables' = AppDrop(tables, req[p].new_name)
    /\ dropped' = [dropped EXCEPT ![p] = AppDropResult(tables, req[p].new_name)]
    /\ live' = live \ {req[p].name}
    /\ Goto(p, "create")
    /\ UNCHANGED <<disk, req, table, contents, ci, resp, out, started, lock>>

\* rename_table: state.drop_table(&current_name).await, its result unused
rename_table_drop(p) ==
    /\ At(p, "rename_table", "drop")
    /\ tables' = AppDrop(tables, req[p].name)
    /\ dropped' = [dropped EXCEPT ![p] = AppDropResult(tables, req[p].name)]
    /\ live' = live \ {req[p].name}
    /\ Goto(p, "create")
    /\ UNCHANGED <<disk, req, table, contents, ci, resp, out, started, lock>>

\* rename_table: state.create(table.clone()).await
rename_table_create(p) ==
    /\ At(p, "rename_table", "create")
    /\ tables' = AppCreate(tables, table[p])
    /\ dropped' = [dropped EXCEPT ![p] = FALSE]
    /\ live' = live \cup {table[p].name}
    /\ Goto(p, "save")
    /\ UNCHANGED <<disk, req, table, contents, ci, resp, out, started, lock>>

\* insert_column runs as a handler of its own and, inside create_table, once
\* per insert_column_requests[ci] with table_name overwritten
InInsertColumn(p) ==
    \/ req[p].kind = "insert_column"
    \/ req[p].kind = "create_table" /\ ci[p] \in 1..Len(req[p].column_requests)

InsertColumnPayload(p) ==
    IF req[p].kind = "insert_column" THEN req[p].column ELSE req[p].column_requests[ci[p]]

\* insert_column: state.get, Column::new, table.add_column
insert_column_get(p) ==
    /\ InInsertColumn(p) /\ pc[p] = "get"
    /\ IF AppGet(tables, req[p].name) = <<>>
       THEN Respond(p, "TableNotFound", <<>>)
       ELSE /\ table' = [table EXCEPT ![p] =
                           add_column(AppGet(tables, req[p].name)[1],
                                      ColumnNew(InsertColumnPayload(p).key,
                                                InsertColumnPayload(p).primary_key,
                                                InsertColumnPayload(p).non_null,
                                                InsertColumnPayload(p).unique))]
            /\ Goto(p, "drop")
            /\ UNCHANGED <<dropped, contents, ci, resp, out>>
    /\ UNCHANGED <<tables, disk, req, started, live, lock>>

\* insert_column: state.drop_table(&table_name).await
insert_column_drop(p) ==
    /\ InInsertColumn(p) /\ pc[p] = "drop"
    /\ tables' = AppDrop(tables, req[p].name)
    /\ dropped' = [dropped EXCEPT ![p] = AppDropResult(tables, req[p].name)]
    /\ Goto(p, "create")
    /\ UNCHANGED <<disk, req, table, contents, ci, resp, out, started, live, lock>>

\* mutant: insert_column goes on to save without state.create
insert_column_create_missing(p) ==
    /\ InInsertColumn(p) /\ pc[p] = "create"
    /\ dropped' = [dropped EXCEPT ![p] = FALSE]
    /\ Goto(p, "save")
    /\ UNCHANGED <<tables, disk, req, table, contents, ci, resp, out, started, live, lock>>

\* insert_column: state.create(table).await
insert_column_create(p) ==
    /\ InInsertColumn(p) /\ pc[p] = "create"
    /\ tables' = AppCreate(tables, table[p])
    /\ dropped' = [dropped EXCEPT ![p] = FALSE]
    /\ Goto(p, "save")
    /\ UNCHANGED <<disk, req, table, contents, ci, resp, out, started, live, lock>>

\* create_table: state.get(&table_name).await.is_some()
create_table_get(p) ==
    /\ At(p, "create_table", "get") /\ ci[p] = 0
    /\ IF AppGet(tables, req[p].name) # <<>>
       THEN Respond(p, "TableAlreadyExists", <<>>)
       ELSE /\ table' = [table EXCEPT ![p] = TableNew(req[p].name)]
            /\ Goto(p, "create")
            /\ UNCHANGED <<dropped, contents, ci, resp, out>>
    /\ UNCHANGED <<tables, disk, req, started, live, lock>>

\* create_table: state.create(new_table.clone()).await, then the loop's first
\* insert_column, or the final save when there is no column request
create_table_create(p) ==
    /\ At(p, "create_table", "create") /\ ci[p] = 0
    /\ tables' = AppCreate(tables, table[p])
    /\ ci' = [ci EXCEPT ![p] = 1]
    /\ live' = live \cup {table[p].name}
    /\ Goto(p, IF Len(req[p].column_requests) = 0 THEN "save" ELSE "get")
    /\ UNCHANGED <<disk, req, table, dropped, contents, resp, out, started, lock>>

\* mutant: only the last column is tested for non_null, not the last k
InsertRowOutcomeLastColumnOnly(t, row) ==
    LET columns_len == Len(t.columns)
        additional_rows == columns_len - Len(row)
    IN  IF Len(row) > columns_len THEN [status |-> "RowArityExceeded", table |-> t]
        ELSE IF Len(row) < columns_len /\ t.columns[columns_len].non_null
             THEN [status |-> "NonNullViolation", table |-> t]
        ELSE [status |-> "Ok",
              table |-> add_row(t, row \o [i \in 1..additional_rows |-> ValueFromNone])]

\* mutant: the row is stored as it came
InsertRowOutcomeUnchecked(t, row) == [status |-> "Ok", table |-> add_row(t, row)]

\* mutant: the arity check is missing
InsertRowOutcomeNoArityCheck(t, row) ==
    LET columns_len == Len(t.columns)
        additional_rows == columns_len - Len(row)
    IN  IF Len(row) < columns_len
           /\ \E i \in (columns_len - additional_rows + 1)..columns_len :
                 t.columns[i].non_null
        THEN [status |-> "NonNullViolation", table |-> t]
        ELSE [status |-> "Ok",
              table |-> add_row(t, row \o [i \in 1..additional_rows |-> ValueFromNone])]

\* insert_row between its get and its drop: the arity and non-null checks, the
\* padding, table.add_row
InsertRowOutcome(t, row) ==
    LET columns_len == Len(t.columns)
        additional_rows == columns_len - Len(row)
    IN  IF Len(row) > columns_len THEN [status |-> "RowArityExceeded", table |-> t]
        ELSE IF Len(row) < columns_len
                /\ \E i \in (columns_len - additional_rows + 1)..columns_len :
                      t.columns[i].non_null
             THEN [status |-> "NonNullViolation", table |-> t]
        ELSE [status |-> "Ok",
              table |-> add_row(t, row \o [i \in 1..additional_rows |-> ValueFromNone])]

\* insert_row: state.get(&table_name).await and the checks
insert_row_get(p) ==
    /\ At(p, "insert_row", "get")
    /\ IF AppGet(tables, req[p].name) = <<>>
       THEN Respond(p, "TableNotFound", <<>>)
       ELSE LET o == InsertRowOutcome(AppGet(tables, req[p].name)[1], req[p].row)
            IN  IF o.status # "Ok"
                THEN Respond(p, o.status, <<>>)
                ELSE /\ table' = [table EXCEPT ![p] = o.table]
                     /\ Goto(p, "drop")
                     /\ UNCHANGED <<dropped, contents, ci, resp, out>>
    /\ UNCHANGED <<tables, disk, req, started, live, lock>>

\* insert_row: state.drop_table(&table_name).await
insert_row_drop(p) ==
    /\ At(p, "insert_row", "drop")
    /\ tables' = AppDrop(tables, req[p].name)
    /\ dropped' = [dropped EXCEPT ![p] = AppDropResult(tables, req[p].name)]
    /\ Goto(p, "create")
    /\ UNCHANGED <<disk, req, table, contents, ci, resp, out, started, live, lock>>

\* mutant: insert_row creates the table from before table.add_row
insert_row_create_without_row(p) ==
    /\ At(p, "insert_row", "create")
    /\ tables' = AppCreate(tables, [table[p] EXCEPT !.rows = SubSeq(@, 1, Len(@) - 1)])
    /\ dropped' = [dropped EXCEPT ![p] = FALSE]
    /\ Goto(p, "save")
    /\ UNCHANGED <<disk, req, table, contents, ci, resp, out, started, live, lock>>

\* insert_row: state.create(table).await
insert_row_create(p) ==
    /\ At(p, "insert_row", "create")
    /\ tables' = AppCreate(tables, table[p])
    /\ dropped' = [dropped EXCEPT ![p] = FALSE]
    /\ Goto(p, "save")
    /\ UNCHANGED <<disk, req, table, contents, ci, resp, out, started, live, lock>>

\* select: state.get and select_rows; a panic ends the task without a response
select_get(p) ==
    /\ At(p, "select", "get")
    /\ IF AppGet(tables, req[p].name) = <<>>
       THEN Respond(p, "TableNotFound", <<>>)
       ELSE LET rows == select_rows(AppGet(tables, req[p].name)[1],
                                    req[p].columns, req[p].condition)
            IN  CASE rows.status = "Ok" -> Respond(p, "OK", rows.rows)
                  [] rows.status = "Err" -> Respond(p, "ColumnNotFound", <<>>)
                  [] rows.status = "Panic" -> Respond(p, "Panic", <<>>)
    /\ UNCHANGED <<tables, disk, req, started, live, lock>>

\* update_table: state.get, select_rows and the two update loops
update_table_get(p) ==
    /\ At(p, "update_table", "get")
    /\ IF AppGet(tables, req[p].name) = <<>>
       THEN Respond(p, "TableNotFound", <<>>)
       ELSE LET o == UpdateOutcome(AppGet(tables, req[p].name)[1],
                                   req[p].condition, req[p].updates)
            IN  IF o.status # "Ok"
                THEN Respond(p, o.status, <<>>)
                ELSE /\ table' = [table EXCEPT ![p] = o.table]
                     /\ Goto(p, "drop")
                     /\ UNCHANGED <<dropped, contents, ci, resp, out>>
    /\ UNCHANGED <<tables, disk, req, started, live, lock>>

\* mutant: update_table writes its first row through to the stored table and
\* leaves that table in the collection
update_table_drop_in_place(p) ==
    /\ At(p, "update_table", "drop")
    /\ tables' = [i \in 1..Len(tables) |->
                    IF i = TablePosition(tables, req[p].name) /\ Len(tables[i].rows) > 0
                    THEN [tables[i] EXCEPT !.rows[1] = table[p].rows[1]]
                    ELSE tables[i]]
    /\ dropped' = [dropped EXCEPT ![p] = FALSE]
    /\ Goto(p, "create")
    /\ UNCHANGED <<disk, req, table, contents, ci, resp, out, started, live, lock>>

\* update_table: state.drop_table(&*payload.table_name.clone()).await
update_table_drop(p) ==
    /\ At(p, "update_table", "drop")
    /\ tables' = AppDrop(tables, req[p].name)
    /\ dropped' = [dropped EXCEPT ![p] = AppDropResult(tables, req[p].name)]
    /\ Goto(p, "create")
    /\ UNCHANGED <<disk, req, table, contents, ci, resp, out, started, live, lock>>

\* update_table: state.create(updated_table).await and the response; no save
update_table_create(p) ==
    /\ At(p, "update_table", "create")
    /\ tables' = AppCreate(tables, [name |-> req[p].name,
                                    columns |-> table[p].columns,
                                    rows |-> table[p].rows])
    /\ Respond(p, "OK", <<>>)
    /\ UNCHANGED <<disk, req, started, live, lock>>

\* AppState::save: get_all().await and serde_json::to_string
save_copy(p) ==
    /\ pc[p] = "save"
    /\ contents' = [contents EXCEPT ![p] = Serialize(AppGetAll(tables))]
    /\ Goto(p, "write")
    /\ UNCHANGED <<tables, disk, req, table, dropped, ci, resp, out, started, live, lock>>

\* what the handler does with Ok(_) of save: insert_column inside create_table
\* returns to the loop, every other caller responds
AfterSave(p) ==
    IF req[p].kind = "create_table" /\ ci[p] \in 1..Len(req[p].column_requests)
    THEN /\ ci' = [ci EXCEPT ![p] = @ + 1]
         /\ Goto(p, IF ci[p] = Len(req[p].column_requests) THEN "save" ELSE "get")
         /\ contents' = [contents EXCEPT ![p] = <<>>]
         /\ table' = [table EXCEPT ![p] = NoTable]
         /\ UNCHANGED <<dropped, resp, out>>
    ELSE Respond(p, "OK",
                 IF req[p].kind \in {"create", "create_table"}
                 THEN <<TableNew(req[p].name)>> ELSE <<>>)

\* AppState::save: the file is opened truncated, written and flushed
save_write(p) ==
    /\ pc[p] = "write"
    /\ disk' = JsonFile(contents[p])
    /\ AfterSave(p)
    /\ UNCHANGED <<tables, req, started, live, lock>>

\* mutant: a failed save puts the collection back to what the file holds
save_error_rolls_back(p) ==
    /\ pc[p] = "write"
    /\ disk' = disk
    /\ tables' = Load(disk)
    /\ Respond(p, "SaveFailed", <<>>)
    /\ UNCHANGED <<req, started, live, lock>>

\* AppState::save: open fails and leaves the file, or a write fails after the
\* truncation; every caller answers "Failed to save state"
save_error(p) ==
    /\ pc[p] = "write"
    /\ disk' \in {disk, Malformed}
    /\ Respond(p, "SaveFailed", <<>>)
    /\ UNCHANGED <<tables, req, started, live, lock>>

Step(p) ==
    \/ create_get(p) \/ create_create(p)
    \/ drop_table_drop(p)
    \/ rename_table_get(p) \/ rename_table_drop(p) \/ rename_table_create(p)
    \/ insert_column_get(p) \/ insert_column_drop(p) \/ insert_column_create(p)
    \/ create_table_get(p) \/ create_table_create(p)
    \/ insert_row_get(p) \/ insert_row_drop(p) \/ insert_row_create(p)
    \/ select_get(p)
    \/ update_table_get(p) \/ update_table_drop(p) \/ update_table_create(p)
    \/ save_copy(p) \/ save_write(p) \/ save_error(p)

\* any number of requests in flight
Next == \E p \in Tasks : Receive(p, MaxRequests) \/ Step(p)
Spec == Init /\ [][Next]_vars

\* one request at a time
NextSeq == \E p \in SeqTasks : Receive(p, MaxSeqRequests) \/ Step(p)
SpecSeq == Init /\ [][NextSeq]_vars

\* ------------------------------------------------ the calls and the Mutex

\* calls received in all when the Mutex is modelled
MaxCalls == 3

\* the four calls of AppState; state.create is given an empty table
Calls ==
    {Request(k, n, "", NoColumn, <<>>, NoColumns, <<>>, <<>>, <<>>) :
        k \in {"state.create", "state.get_all", "state.get", "state.drop_table"},
        n \in Names}

\* a task makes a call of AppState: it awaits self.tables.lock()
call_begin(p) ==
    /\ pc[p] \in {"idle", "done"}
    /\ started < MaxCalls
    /\ \E c \in Calls : req' = [req EXCEPT ![p] = c]
    /\ Goto(p, "lock")
    /\ started' = started + 1
    /\ table' = [table EXCEPT ![p] = NoTable]
    /\ dropped' = [dropped EXCEPT ![p] = FALSE]
    /\ out' = [out EXCEPT ![p] = <<>>]
    /\ UNCHANGED <<tables, disk, contents, ci, resp, live, lock>>

\* mutant: the lock is handed out while another task holds it
lock_acquire_unguarded(p) ==
    /\ pc[p] = "lock"
    /\ lock' = p
    /\ Goto(p, "locked")
    /\ UNCHANGED <<tables, disk, req, table, dropped, contents, ci, resp, out, started, live>>

\* tokio::sync::Mutex::lock().await completes when no task holds the lock
lock_acquire(p) ==
    /\ pc[p] = "lock"
    /\ lock = 0
    /\ lock' = p
    /\ Goto(p, "locked")
    /\ UNCHANGED <<tables, disk, req, table, dropped, contents, ci, resp, out, started, live>>

\* AppState::create under the lock: lock.push(table)
state_create(p) ==
    /\ At(p, "state.create", "locked")
    /\ tables' = AppCreate(tables, TableNew(req[p].name))
    /\ Goto(p, "unlock")
    /\ UNCHANGED <<disk, req, table, dropped, contents, ci, resp, out, started, live, lock>>

\* AppState::get_all under the lock: lock.iter().cloned().collect()
state_get_all(p) ==
    /\ At(p, "state.get_all", "locked")
    /\ out' = [out EXCEPT ![p] = AppGetAll(tables)]
    /\ Goto(p, "unlock")
    /\ UNCHANGED <<tables, disk, req, table, dropped, contents, ci, resp, started, live, lock>>

\* AppState::get under the lock: lock.iter().find(..).cloned()
state_get(p) ==
    /\ At(p, "state.get", "locked")
    /\ out' = [out EXCEPT ![p] = AppGet(tables, req[p].name)]
    /\ Goto(p, "unlock")
    /\ UNCHANGED <<tables, disk, req, table, dropped, contents, ci, resp, started, live, lock>>

\* AppState::drop_table under the lock: position, remove
state_drop_table(p) ==
    /\ At(p, "state.drop_table", "locked")
    /\ tables' = AppDrop(tables, req[p].name)
    /\ dropped' = [dropped EXCEPT ![p] = AppDropResult(tables, req[p].name)]
    /\ Goto(p, "unlock")
    /\ UNCHANGED <<disk, req, table, contents, ci, resp, out, started, live, lock>>

\* the call returns: the MutexGuard goes out of scope
lock_release(p) ==
    /\ pc[p] = "unlock"
    /\ lock' = 0
    /\ Goto(p, "done")
    /\ UNCHANGED <<tables, disk, req, table, dropped, contents, ci, resp, out, started, live>>

\* the calls of any number of tasks, each in its steps
NextLock ==
    \E p \in Tasks :
        \/ call_begin(p) \/ lock_acquire(p) \/ lock_release(p)
        \/ state_create(p) \/ state_get_all(p) \/ state_get(p) \/ state_drop_table(p)
SpecLock == Init /\ [][NextLock]_vars

\* ------------------------------------------------------------ the interrupt

\* main spawns the server and one more task, which awaits ctrl_c() and then
\* saves; the last task stands for it, the others serve requests
SignalTask == NumTasks

\* ctrl_c().await completes: the interrupt signal has arrived
ctrl_c(p) ==
    /\ p = SignalTask
    /\ pc[p] = "idle"
    /\ req' = [req EXCEPT ![p] =
                  Request("ctrl_c", "", "", NoColumn, <<>>, NoColumns, <<>>, <<>>, <<>>)]
    /\ Goto(p, "save")
    /\ UNCHANGED <<tables, disk, table, dropped, contents, ci, resp, out, started, live, lock>>

\* the server task goes on serving while the signal task waits, saves and
\* ends; main then awaits server_task, and axum::serve does not return
NextMain ==
    \/ \E p \in Tasks \ {SignalTask} : Receive(p, MaxRequests)
    \/ \E p \in Tasks : ctrl_c(p) \/ Step(p)
SpecMain == Init /\ [][NextMain]_vars

\* ------------------------------------------------------------ the scenario

\* the requests of the end-to-end scenario, in their order
Scenario ==
    << Request("create", "t", "", NoColumn, <<>>, NoColumns, <<>>, <<>>, <<>>),
       Request("insert_column", "t", "", ColA, <<>>, NoColumns, <<>>, <<>>, <<>>),
       Request("insert_column", "t", "", ColB, <<>>, NoColumns, <<>>, <<>>, <<>>),
       Request("insert_row", "t", "", NoColumn, <<IntV(1)>>, NoColumns, <<>>, <<>>, <<>>),
       Request("insert_row", "t", "", NoColumn, <<IntV(1), IntV(2), IntV(3)>>,
               NoColumns, <<>>, <<>>, <<>>),
       Request("select", "t", "", NoColumn, <<>>, NoColumns, <<Condition("a", "1")>>,
               <<>>, <<>>),
       Request("update_table", "t", "", NoColumn, <<>>, NoColumns, <<Condition("a", "1")>>,
               <<UpdateColumn("b", "9")>>, <<>>) >>

\* the server has started with no snapshot to load
InitEmpty == Init /\ tables = <<>>

\* the client sends the next request of the scenario when the last is answered
scenario_receive(p) ==
    /\ pc[p] \in {"idle", "done"}
    /\ started < Len(Scenario)
    /\ req' = [req EXCEPT ![p] = Scenario[started + 1]]
    /\ Goto(p, "get")
    /\ started' = started + 1
    /\ resp' = [resp EXCEPT ![p] = ""]
    /\ out' = [out EXCEPT ![p] = <<>>]
    /\ UNCHANGED <<tables, disk, table, dropped, contents, ci, live, lock>>

\* the handlers the scenario calls
NextScenario ==
    \E p \in SeqTasks :
        \/ scenario_receive(p)
        \/ create_get(p) \/ create_create(p)
        \/ insert_column_get(p) \/ insert_column_drop(p) \/ insert_column_create(p)
        \/ insert_row_get(p) \/ insert_row_drop(p) \/ insert_row_create(p)
        \/ select_get(p)
        \/ update_table_get(p) \/ update_table_drop(p) \/ update_table_create(p)
        \/ save_copy(p) \/ save_write(p) \/ save_error(p)
SpecScenario == InitEmpty /\ [][NextScenario]_vars

\* ------------------------------------------------- an update and its readers

\* reads received in all while one update_table is served
MaxReads == 2

\* t as create, two insert_column and three insert_row leave it
SeedThreeRows ==
    [name |-> "t", columns |-> <<ColA, ColB>>,
     rows |-> << <<IntV(1), NullV>>, <<IntV(2), NullV>>, <<IntV(3), StrV("x")>> >>]

InitUpdate == InitFrom({JsonFile(Serialize(<<SeedThreeRows>>)), JsonFile(Serialize(<<SeedTable>>))})

\* updates of one column and of two, on a condition two rows meet, on one that
\* one row meets, and without a condition
ManyUpdateRequests ==
    {Request("update_table", "t", "", NoColumn, <<>>, NoColumns, c, u, <<>>) :
        c \in {<<>>, <<Condition("a", "1")>>, <<Condition("b", "")>>},
        u \in {<<UpdateColumn("b", "9")>>, <<UpdateColumn("b", "9"), UpdateColumn("a", "7")>>}}

\* GET /tables, and the selects
ReadRequests ==
    {Request("get_tables", "", "", NoColumn, <<>>, NoColumns, <<>>, <<>>, <<>>)}
    \cup {Request("select", "t", "", NoColumn, <<>>, cs, c, <<>>, <<>>) :
            cs \in {NoColumns, SomeColumns(<<"b", "a">>)},
            c \in {<<>>, <<Condition("b", "")>>, <<Condition("b", "9")>>}}

\* the one update_table request reaches a task, which serves nothing else
update_receive(p) ==
    /\ pc[p] = "idle"
    /\ \A q \in Tasks : req[q].kind # "update_table"
    /\ \E r \in ManyUpdateRequests : req' = [req EXCEPT ![p] = r]
    /\ Goto(p, "get")
    /\ UNCHANGED <<tables, disk, table, dropped, contents, ci, resp, out, started, live, lock>>

\* a read reaches a task
read_receive(p) ==
    /\ pc[p] \in {"idle", "done"}
    /\ req[p].kind # "update_table"
    /\ started < MaxReads
    /\ \E r \in ReadRequests : req' = [req EXCEPT ![p] = r]
    /\ Goto(p, "get")
    /\ started' = started + 1
    /\ resp' = [resp EXCEPT ![p] = ""]
    /\ out' = [out EXCEPT ![p] = <<>>]
    /\ UNCHANGED <<tables, disk, table, dropped, contents, ci, live, lock>>

\* get_tables: state.get_all().await
get_tables(p) ==
    /\ At(p, "get_tables", "get")
    /\ Respond(p, "OK", AppGetAll(tables))
    /\ UNCHANGED <<tables, disk, req, started, live, lock>>

\* one update_table with reads in flight
NextUpdate ==
    \E p \in Tasks :
        \/ update_receive(p) \/ read_receive(p)
        \/ update_table_get(p) \/ update_table_drop(p) \/ update_table_create(p)
        \/ select_get(p) \/ get_tables(p)
SpecUpdate == InitUpdate /\ [][NextUpdate]_vars

\* ------------------------------------------------------- fair scheduling

\* the tokio runtime polls every task that is ready: a handler that can make
\* its next call makes it
FairSpec == Spec /\ \A p \in Tasks : WF_vars(Step(p))

\* ------------------------------------------------------------- properties

Count(ts, name) == Cardinality({i \in 1..Len(ts) : ts[i].name = name})

\* a row as insert_row stores it in a table of n columns
Padded(row, n) == row \o [i \in 1..(n - Len(row)) |-> NullV]

\* task p has dropped the table named T and not yet created it again, in
\* insert_column (also inside create_table), insert_row or update_table
BetweenDropAndCreate(p, T) ==
    /\ pc[p] = "create"
    /\ req[p].name = T
    /\ \/ req[p].kind \in {"insert_column", "insert_row", "update_table"}
       \/ req[p].kind = "create_table" /\ ci[p] >= 1

\* C1: no two tables of the collection have the same name. Violated: a
\* rename_table onto a name in use, or two creates in flight, store two.
C1_NamesUnique ==
    \A i, j \in 1..Len(tables) : tables[i].name = tables[j].name => i = j

\* C2: insert_row's create installs the copy the task took at its get plus its
\* own row, as it is: it is the last table of the collection and, when no
\* table of that name is left, the one the name resolves to. Nothing another
\* task stored under the name since the get is merged in.
C2_InsertRowInstallsItsCopy ==
    [][\A p \in Tasks :
          (At(p, "insert_row", "create") /\ pc'[p] = "save")
          => /\ tables'[Len(tables')] = table[p]
             /\ Len(tables') = Len(tables) + 1
             /\ AppGet(tables, req[p].name) = <<>>
                   => AppGet(tables', req[p].name) = <<table[p]>>]_vars

\* C2, the lost update: two insert_row requests, the only requests received,
\* were both answered OK, no task is in flight, one table is stored under the
\* name, and the row of one of them is in no stored table.
C2_LostUpdate ==
    /\ started = 2
    /\ \E p, q \in Tasks :
         /\ p # q
         /\ pc[p] = "done" /\ pc[q] = "done"
         /\ req[p].kind = "insert_row" /\ req[q].kind = "insert_row"
         /\ req[p].name = req[q].name
         /\ resp[p] = "OK" /\ resp[q] = "OK"
         /\ Count(tables, req[p].name) = 1
         /\ \E k \in 1..Len(AppGet(tables, req[p].name)[1].rows) :
               AppGet(tables, req[p].name)[1].rows[k]
                  = Padded(req[p].row, Len(AppGet(tables, req[p].name)[1].columns))
         /\ \A i \in 1..Len(tables) : \A k \in 1..Len(tables[i].rows) :
               tables[i].rows[k] # Padded(req[q].row, Len(tables[i].columns))

\* C3: a name that was created or loaded, and that no request has asked to
\* drop or rename away, resolves to no table only while some task is between
\* the drop and the create of an insert_column, insert_row or update_table on it.
C3_AbsentOnlyBetweenDropAndCreate ==
    \A T \in live :
        AppGet(tables, T) = <<>> => \E p \in Tasks : BetweenDropAndCreate(p, T)

\* C3, the transient loss seen: a select of T was answered "does not exist"
\* while T is live and another task is between its drop and its create.
C3_SelectSeesNoTable ==
    \E p, q \in Tasks : \E T \in live :
        /\ p # q
        /\ BetweenDropAndCreate(p, T)
        /\ AppGet(tables, T) = <<>>
        /\ pc[q] = "done" /\ req[q].kind = "select" /\ req[q].name = T
        /\ resp[q] = "TableNotFound"

\* C4: the drop step of rename_table(old, new), old # new, taken when one table
\* is named old and none new, leaves a collection in which neither resolves.
C4_RenameDropLeavesNeitherName ==
    [][\A p \in Tasks :
          (/\ At(p, "rename_table", "drop") /\ pc'[p] = "create"
           /\ req[p].name # req[p].new_name
           /\ Count(tables, req[p].name) = 1
           /\ AppGet(tables, req[p].new_name) = <<>>)
          => /\ AppGet(tables', req[p].name) = <<>>
             /\ AppGet(tables', req[p].new_name) = <<>>]_vars

\* C4, the intermediate state seen: a rename is between its drop and its
\* create, neither name resolves, and a select of the old name by another
\* task was answered "does not exist".
C4_NeitherNameResolves ==
    \E p, q \in Tasks :
        /\ p # q
        /\ At(p, "rename_table", "create")
        /\ req[p].name # req[p].new_name
        /\ req[p].name \in {SeedTable.name}
        /\ disk = JsonFile(Serialize(<<SeedTable>>))
        /\ started = 2
        /\ AppGet(tables, req[p].name) = <<>>
        /\ AppGet(tables, req[p].new_name) = <<>>
        /\ pc[q] = "done" /\ req[q].kind = "select" /\ req[q].name = req[p].name
        /\ resp[q] = "TableNotFound"

\* C5: a rename never adds a table, also when another rename names the same
\* source: the one that creates the table under its new name has itself removed
\* it from under the old one, so the table is held under one name. Violated: of
\* two renames of one source in flight, the second drops nothing and creates too.
C5_RenameReplacesItsSource ==
    \A p, q \in Tasks :
        (/\ p # q
         /\ At(p, "rename_table", "create")
         /\ req[q].kind = "rename_table" /\ req[q].name = req[p].name
         /\ pc[q] \in {"create", "save", "write", "done"})
        => dropped[p]

\* the columns an update names, by position in t
UpdatedPositions(t, updates) ==
    {ColumnPosition(t.columns, updates[j].column) : j \in 1..Len(updates)} \ {0}

\* the value the last update naming position k gives
LastUpdateAt(t, updates, k) ==
    LET js == {j \in 1..Len(updates) : ColumnPosition(t.columns, updates[j].column) = k}
    IN  StrV(updates[CHOOSE j \in js : \A i \in js : i <= j].value)

\* C6: after an update_table with condition = None (answered OK, one request at
\* a time), every row of the table stored under the name holds the update's
\* value at each updated column. Violated: without a condition nothing is written.
C6_UpdateWithoutConditionOverwritesAll ==
    \A p \in SeqTasks :
        (/\ pc[p] = "done" /\ req[p].kind = "update_table" /\ resp[p] = "OK"
         /\ req[p].condition = <<>>)
        => LET t == AppGet(tables, req[p].name)[1]
           IN  \A i \in 1..Len(t.rows) :
                 \A k \in UpdatedPositions(t, req[p].updates) :
                    k <= Len(t.rows[i]) => t.rows[i][k] = LastUpdateAt(t, req[p].updates, k)

\* the condition's test of a stored row, by the string projection
Matches(t, row, condition) ==
    LET k == ColumnPosition(t.columns, condition.column)
    IN  k # 0 /\ k <= Len(row) /\ unwrap_or_default(as_string(row[k])) = condition.value

\* C7: the table an update_table with a condition goes on to store differs from
\* the stored table it read only at the updated columns of the matching rows,
\* which hold the update's value; name, columns, the number and order of rows,
\* every other row and every other position are the same.
C7_UpdateWithConditionFrame ==
    \A p \in SeqTasks :
        (At(p, "update_table", "drop") /\ req[p].condition # <<>>)
        => LET old == AppGet(tables, req[p].name)[1]
               new == table[p]
               ks == UpdatedPositions(old, req[p].updates)
           IN  /\ new.name = old.name /\ new.columns = old.columns
               /\ Len(new.rows) = Len(old.rows)
               /\ \A i \in 1..Len(old.rows) :
                    IF Matches(old, old.rows[i], req[p].condition[1])
                    THEN /\ Len(new.rows[i]) = Len(old.rows[i])
                         /\ \A k \in 1..Len(old.rows[i]) :
                              new.rows[i][k] = IF k \in ks
                                               THEN LastUpdateAt(old, req[p].updates, k)
                                               ELSE old.rows[i][k]
                    ELSE new.rows[i] = old.rows[i]

\* C7, its case: an update with a condition is about to store a table in which
\* one row matched and was changed and another did not match.
C7_UpdateChangedAMatchingRow ==
    \E p \in SeqTasks :
        /\ At(p, "update_table", "drop") /\ req[p].condition # <<>>
        /\ LET old == AppGet(tables, req[p].name)[1]
           IN  /\ \E i \in 1..Len(old.rows) :
                     /\ Matches(old, old.rows[i], req[p].condition[1])
                     /\ table[p].rows[i] # old.rows[i]
               /\ \E i \in 1..Len(old.rows) :
                     ~Matches(old, old.rows[i], req[p].condition[1])

\* C8: one request at a time, an insert_row with k > 0 fewer values than the
\* table has columns passes its checks iff none of the last k columns is
\* non_null, and then goes on to store the row padded with k Nulls; otherwise
\* it is answered with the non-null error and collection and snapshot are as
\* they were. The row an insert_row that passed its checks has stored (answered
\* OK, or the save failed) is the last row of the table, at full column length.
C8_ArityPadding ==
    /\ [][\A p \in SeqTasks :
            (/\ At(p, "insert_row", "get") /\ pc'[p] # "get"
             /\ AppGet(tables, req[p].name) # <<>>
             /\ Len(req[p].row) < Len(AppGet(tables, req[p].name)[1].columns))
            => LET t == AppGet(tables, req[p].name)[1]
                   n == Len(t.columns)
                   k == n - Len(req[p].row)
               IN  IF \E i \in (n - k + 1)..n : t.columns[i].non_null
                   THEN /\ pc'[p] = "done" /\ resp'[p] = "NonNullViolation"
                        /\ tables' = tables /\ disk' = disk
                   ELSE /\ pc'[p] = "drop"
                        /\ table'[p] = [t EXCEPT !.rows = Append(@, Padded(req[p].row, n))]]_vars
    /\ [](\A p \in SeqTasks :
            (pc[p] = "done" /\ req[p].kind = "insert_row" /\ resp[p] \in {"OK", "SaveFailed"})
            => LET last == tables[Len(tables)]
               IN  /\ last.name = req[p].name
                   /\ Len(last.rows) > 0
                   /\ last.rows[Len(last.rows)] = Padded(req[p].row, Len(last.columns)))

\* C8, its case: a row with fewer values than columns was inserted and answered
\* OK, and is stored with Null in the positions it did not give.
C8_PaddedRowStored ==
    \E p \in SeqTasks :
        /\ pc[p] = "done" /\ req[p].kind = "insert_row" /\ resp[p] = "OK"
        /\ LET last == tables[Len(tables)]
               row == last.rows[Len(last.rows)]
           IN  /\ Len(req[p].row) < Len(last.columns)
               /\ Len(row) = Len(last.columns)
               /\ \A i \in 1..Len(row) :
                    row[i] = IF i <= Len(req[p].row) THEN req[p].row[i] ELSE NullV

\* C9: an insert_row with more values than the table has columns ends at its
\* check: it is answered with the arity error and that step leaves collection
\* and snapshot as they were; the handler makes no further call.
C9_ArityExceededRejected ==
    [][\A p \in Tasks :
          (/\ At(p, "insert_row", "get") /\ pc'[p] # "get"
           /\ AppGet(tables, req[p].name) # <<>>
           /\ Len(req[p].row) > Len(AppGet(tables, req[p].name)[1].columns))
          => /\ pc'[p] = "done" /\ resp'[p] = "RowArityExceeded"
             /\ tables' = tables /\ disk' = disk]_vars

\* C9, its case: an insert_row was answered with the arity error.
C9_ArityErrorAnswered ==
    \E p \in Tasks :
        pc[p] = "done" /\ req[p].kind = "insert_row" /\ resp[p] = "RowArityExceeded"

MutatingKinds ==
    {"create", "create_table", "drop_table", "rename_table", "insert_column",
     "insert_row", "update_table"}

\* C10: when a mutating request has been answered OK, one request at a time,
\* db.json holds the collection. Violated: update_table never calls save.
C10_SnapshotMirrorsMemory ==
    \A p \in SeqTasks :
        (pc[p] = "done" /\ resp[p] = "OK" /\ req[p].kind \in MutatingKinds)
        => disk.file = "json" /\ Load(disk) = tables

\* C11: when every task has received one request, a mutating one that saves,
\* and all were answered OK, db.json holds the collection. Violated: save
\* copies the collection under the lock and writes the file after releasing
\* it, so the save that copied first can write last.
C11_SnapshotMirrorsMemoryAfterOverlap ==
    (/\ started = NumTasks
     /\ \A p \in Tasks :
          /\ pc[p] = "done" /\ resp[p] = "OK"
          /\ req[p].kind \in MutatingKinds \ {"update_table"})
    => disk.file = "json" /\ Load(disk) = tables

\* the table a request that was answered, one request at a time, has read: a
\* select changes nothing and an update_table keeps name and columns
TableRead(p) == AppGet(tables, req[p].name)[1]

\* C12: a select of an existing table whose condition names a column the table
\* does not have is answered ColumnNotFound. Violated: the column is resolved
\* inside the loop over the rows, so a table with no rows answers OK and [].
C12_MissingConditionColumnRejected ==
    \A p \in SeqTasks :
        (/\ pc[p] = "done" /\ req[p].kind = "select"
         /\ AppGet(tables, req[p].name) # <<>>
         /\ req[p].condition # <<>>
         /\ ColumnPosition(TableRead(p).columns, req[p].condition[1].column) = 0)
        => resp[p] = "ColumnNotFound"

\* C13: a select of an existing table whose projection list names a column the
\* table does not have is answered ColumnNotFound. Violated: the names are
\* resolved for each retained row, so with no row, or none that matches the
\* condition, the answer is OK and [].
C13_MissingProjectionColumnRejected ==
    \A p \in SeqTasks :
        (/\ pc[p] = "done" /\ req[p].kind = "select"
         /\ AppGet(tables, req[p].name) # <<>>
         /\ req[p].columns.some
         /\ \E j \in 1..Len(req[p].columns.names) :
               ColumnPosition(TableRead(p).columns, req[p].columns.names[j]) = 0)
        => resp[p] = "ColumnNotFound"

\* C14: an update_table of an existing table one of whose updates names a
\* column the table does not have is answered ColumnNotFound. Violated: the
\* update columns are resolved for each selected row, so with no row, or none
\* that matches the condition, the answer is OK.
C14_MissingUpdateColumnRejected ==
    \A p \in SeqTasks :
        (/\ pc[p] = "done" /\ req[p].kind = "update_table"
         /\ AppGet(tables, req[p].name) # <<>>
         /\ \E j \in 1..Len(req[p].updates) :
               ColumnPosition(TableRead(p).columns, req[p].updates[j].column) = 0)
        => resp[p] = "ColumnNotFound"

\* the rows of t from row i on whose value at position k is not Null and has
\* the string projection v
RECURSIVE RowsEqualTo(_, _, _, _)
RowsEqualTo(t, k, v, i) ==
    IF i > Len(t.rows) THEN <<>>
    ELSE (IF /\ k <= Len(t.rows[i])
             /\ t.rows[i][k].kind # "Null"
             /\ as_string(t.rows[i][k]) = Some(v)
          THEN <<t.rows[i]>> ELSE <<>>) \o RowsEqualTo(t, k, v, i + 1)

\* C15: a select with a condition on an existing column and no projection,
\* answered OK, returns exactly the rows whose value at that column is not
\* Null and has a string projection equal to the condition value. Violated:
\* Null is projected to "" and so retained by the condition value "".
C15_ConditionRetainsEqualNonNull ==
    \A p \in SeqTasks :
        (/\ pc[p] = "done" /\ req[p].kind = "select" /\ resp[p] = "OK"
         /\ req[p].condition # <<>> /\ ~req[p].columns.some
         /\ ColumnPosition(TableRead(p).columns, req[p].condition[1].column) # 0)
        => out[p] = RowsEqualTo(TableRead(p),
                                ColumnPosition(TableRead(p).columns, req[p].condition[1].column),
                                req[p].condition[1].value, 1)

\* the rows of t from row i on that the condition retains, in stored order; a
\* row with no value at the condition column is not one of them
RECURSIVE KeptRows(_, _, _)
KeptRows(t, condition, i) ==
    IF i > Len(t.rows) THEN <<>>
    ELSE (IF \/ condition = <<>>
             \/ LET k == ColumnPosition(t.columns, condition[1].column)
                IN  /\ k # 0 /\ k <= Len(t.rows[i])
                    /\ unwrap_or_default(as_string(t.rows[i][k])) = condition[1].value
          THEN <<t.rows[i]>> ELSE <<>>) \o KeptRows(t, condition, i + 1)

\* C16: one request at a time, a select without projection whose condition, if
\* any, names a column of the table answers OK with the stored rows the
\* condition retains, whole and in stored order. Violated: after an
\* insert_column on a table that has rows, a condition on the new column
\* indexes past the end of the stored rows and the handler panics.
C16_SelectReturnsRowsInStoredOrder ==
    \A p \in SeqTasks :
        (/\ pc[p] = "done" /\ req[p].kind = "select"
         /\ AppGet(tables, req[p].name) # <<>>
         /\ ~req[p].columns.some
         /\ \/ req[p].condition = <<>>
            \/ ColumnPosition(TableRead(p).columns, req[p].condition[1].column) # 0)
        => /\ resp[p] = "OK"
           /\ out[p] = KeptRows(TableRead(p), req[p].condition, 1)

\* C17: one request at a time, a select with a projection list of existing
\* column names, answered OK, returns for each retained row, in stored order, a
\* row of the list's length whose position j holds the stored row's value at
\* the table index of the j-th name.
C17_ProjectionFollowsRequestedOrder ==
    \A p \in SeqTasks :
        (/\ pc[p] = "done" /\ req[p].kind = "select" /\ resp[p] = "OK"
         /\ req[p].columns.some
         /\ \A j \in 1..Len(req[p].columns.names) :
               ColumnPosition(TableRead(p).columns, req[p].columns.names[j]) # 0)
        => LET names == req[p].columns.names
               kept == KeptRows(TableRead(p), req[p].condition, 1)
           IN  /\ Len(out[p]) = Len(kept)
               /\ \A i \in 1..Len(kept) :
                    /\ Len(out[p][i]) = Len(names)
                    /\ \A j \in 1..Len(names) :
                         out[p][i][j] = kept[i][ColumnPosition(TableRead(p).columns, names[j])]

\* C17, its case: a select with a projection list that is not in table order
\* returned a row whose values differ, in the order of the list.
C17_ProjectedAgainstTableOrder ==
    \E p \in SeqTasks :
        /\ pc[p] = "done" /\ req[p].kind = "select" /\ resp[p] = "OK"
        /\ req[p].columns.some
        /\ Len(req[p].columns.names) = 2
        /\ ColumnPosition(TableRead(p).columns, req[p].columns.names[1]) = 2
        /\ ColumnPosition(TableRead(p).columns, req[p].columns.names[2]) = 1
        /\ \E i \in 1..Len(out[p]) :
              /\ out[p][i] = <<TableRead(p).rows[i][2], TableRead(p).rows[i][1]>>
              /\ out[p][i][1] # out[p][i][2]

\* C18: every stored column with primary_key = true has non_null = true and
\* unique = true. Violated: Column::new and insert_column check no flag.
C18_PrimaryKeyIsNonNullUnique ==
    \A i \in 1..Len(tables) : \A j \in 1..Len(tables[i].columns) :
        tables[i].columns[j].primary_key
        => tables[i].columns[j].non_null /\ tables[i].columns[j].unique

\* C19: no stored table has two columns with the same key. Violated:
\* Table::add_column pushes the column and insert_column checks no key.
C19_ColumnKeysUnique ==
    \A i \in 1..Len(tables) : \A j, k \in 1..Len(tables[i].columns) :
        tables[i].columns[j].key = tables[i].columns[k].key => j = k

\* C20: every row of every stored table, and of every table a handler is
\* about to store, has at most as many values as the table has columns.
C20_RowsWithinColumns ==
    /\ \A i \in 1..Len(tables) : \A r \in 1..Len(tables[i].rows) :
          Len(tables[i].rows[r]) <= Len(tables[i].columns)
    /\ \A p \in Tasks : \A r \in 1..Len(table[p].rows) :
          Len(table[p].rows[r]) <= Len(table[p].columns)

\* C20, its case: an insert_row with as many values as the table has columns
\* was answered OK and its row is stored, and a stored table that got a column
\* after its rows has a row with fewer values than columns.
C20_FullRowAndShortRowStored ==
    /\ \E p \in Tasks :
          /\ pc[p] = "done" /\ req[p].kind = "insert_row" /\ resp[p] = "OK"
          /\ req[p].row # <<>>
          /\ \E i \in 1..Len(tables) : \E r \in 1..Len(tables[i].rows) :
                /\ tables[i].name = req[p].name
                /\ tables[i].rows[r] = req[p].row
                /\ Len(req[p].row) = Len(tables[i].columns)
    /\ \E p \in Tasks : \E i \in 1..Len(tables) : \E r \in 1..Len(tables[i].rows) :
          /\ pc[p] = "done" /\ req[p].kind = "insert_column" /\ resp[p] = "OK"
          /\ tables[i].name = req[p].name
          /\ Len(tables[i].rows[r]) < Len(tables[i].columns)

\* C21: one request at a time, a select or update_table of an existing table
\* ends with rows or success, or with ColumnNotFound. Violated: insert_column
\* leaves the stored rows at their old length, and a condition, projection or
\* update on the new column indexes past the end of such a row: a panic.
C21_SelectAndUpdateEndWithoutPanic ==
    \A p \in SeqTasks :
        (/\ pc[p] = "done" /\ req[p].kind \in {"select", "update_table"}
         /\ AppGet(tables, req[p].name) # <<>>)
        => resp[p] \in {"OK", "ColumnNotFound"}

\* C22: the get step of create or create_table, when the name resolves, ends
\* the request with TableAlreadyExists and leaves collection and snapshot as
\* they were; when it does not, the request goes on to its create step, and
\* that step adds one table, empty and of that name, at the end.
C22_CreateChecksThenAddsOneEmptyTable ==
    [][\A p \in Tasks :
          /\ (/\ req[p].kind \in {"create", "create_table"}
              /\ pc[p] = "get" /\ ci[p] = 0 /\ pc'[p] # "get")
             => IF AppGet(tables, req[p].name) # <<>>
                THEN /\ pc'[p] = "done" /\ resp'[p] = "TableAlreadyExists"
                     /\ tables' = tables /\ disk' = disk
                ELSE /\ pc'[p] = "create"
                     /\ tables' = tables /\ disk' = disk
          /\ (/\ req[p].kind \in {"create", "create_table"}
              /\ pc[p] = "create" /\ ci[p] = 0 /\ pc'[p] # "create")
             => tables' = Append(tables, [name |-> req[p].name,
                                          columns |-> <<>>, rows |-> <<>>])]_vars

\* C22, its case: a create was answered OK and left one empty table of its
\* name, and a create or create_table of that name was then refused.
C22_CreatedOnceThenRefused ==
    \E p, q \in Tasks :
        /\ p # q
        /\ pc[p] = "done" /\ req[p].kind = "create" /\ resp[p] = "OK"
        /\ pc[q] = "done" /\ req[q].kind \in {"create", "create_table"}
        /\ req[q].name = req[p].name
        /\ resp[q] = "TableAlreadyExists"
        /\ Count(tables, req[p].name) = 1
        /\ AppGet(tables, req[p].name) = <<TableNew(req[p].name)>>

\* C23: one request at a time, after a drop_table whose state.drop_table
\* returned true (answered OK, or the save failed) the name resolves to no
\* table. Violated: two tables can have one name (C1), drop_table removes the
\* first and the name still resolves to the other.
C23_DroppedNameIsAbsent ==
    \A p \in SeqTasks :
        (/\ pc[p] = "done" /\ req[p].kind = "drop_table"
         /\ resp[p] \in {"OK", "SaveFailed"})
        => AppGet(tables, req[p].name) = <<>>

\* C24: one request at a time, the create step of rename_table(old, new)
\* leaves a collection in which new resolves to the table old resolved to at
\* the request's get, under its new name, and old, when it differs from new,
\* resolves to nothing. Violated: when a table named new exists, the renamed
\* table is pushed behind it and new still resolves to the earlier one.
C24_RenamedTableIsFoundUnderNewName ==
    [][\A p \in SeqTasks :
          (At(p, "rename_table", "create") /\ pc'[p] # "create")
          => /\ AppGet(tables', req[p].new_name) = <<table[p]>>
             /\ req[p].name # req[p].new_name => AppGet(tables', req[p].name) = <<>>]_vars

\* C25: the first step of a drop_table, rename_table, insert_column,
\* insert_row, select or update_table whose name resolves to no table ends the
\* request with the does-not-exist error and leaves collection and snapshot
\* as they were.
C25_AbsentNameIsRefused ==
    [][\A p \in Tasks :
          (/\ \/ At(p, "drop_table", "drop")
              \/ /\ pc[p] = "get"
                 /\ req[p].kind \in {"rename_table", "insert_column", "insert_row",
                                     "select", "update_table"}
           /\ pc'[p] # pc[p]
           /\ AppGet(tables, req[p].name) = <<>>)
          => /\ pc'[p] = "done" /\ resp'[p] = "TableNotFound"
             /\ tables' = tables /\ disk' = disk]_vars

\* C25, its case: a drop_table and a request of another kind, both for a name
\* that resolves to no table, were answered with the does-not-exist error.
C25_AbsentNameAnswered ==
    \E p, q \in Tasks :
        /\ pc[p] = "done" /\ req[p].kind = "drop_table" /\ resp[p] = "TableNotFound"
        /\ pc[q] = "done" /\ resp[q] = "TableNotFound"
        /\ req[q].kind \in {"rename_table", "insert_column", "insert_row", "update_table"}
        /\ AppGet(tables, req[p].name) = <<>>
        /\ AppGet(tables, req[q].name) = <<>>

\* C26: in the table an update_table goes on to store, every cell that differs
\* from the stored table it read, and every updated column of a matching row,
\* holds a Str whose text is the value of an update naming that column,
\* whatever kind of value the cell held.
C26_UpdatedCellsAreStrings ==
    \A p \in SeqTasks :
        At(p, "update_table", "drop")
        => LET old == AppGet(tables, req[p].name)[1]
               new == table[p]
               Written(i, k) ==
                   \/ new.rows[i][k] # old.rows[i][k]
                   \/ /\ req[p].condition # <<>>
                      /\ Matches(old, old.rows[i], req[p].condition[1])
                      /\ k \in UpdatedPositions(old, req[p].updates)
           IN  \A i \in 1..Len(old.rows) : \A k \in 1..Len(old.rows[i]) :
                  Written(i, k)
                  => /\ new.rows[i][k].kind = "Str"
                     /\ \E j \in 1..Len(req[p].updates) :
                           /\ ColumnPosition(old.columns, req[p].updates[j].column) = k
                           /\ new.rows[i][k] = StrV(req[p].updates[j].value)

\* C26, its case: an update_table is about to store a Str in a cell that held
\* an Int, a Float, a Bool or Null.
C26_StringReplacedAnotherKind ==
    \E p \in SeqTasks :
        /\ At(p, "update_table", "drop")
        /\ LET old == AppGet(tables, req[p].name)[1]
           IN  \E i \in 1..Len(old.rows) : \E k \in 1..Len(old.rows[i]) :
                  /\ old.rows[i][k].kind \in {"Int", "Float", "Bool", "Null"}
                  /\ table[p].rows[i][k].kind = "Str"

\* C27: the step in which a save fails answers its request with the save
\* error, leaves the collection as the request's mutation made it, and does
\* not write the collection to db.json (the file is as it was, or no longer
\* parses). One request at a time, the mutation of a request so answered is
\* in the collection: the created or renamed table resolves, the inserted
\* column or row is the last of the last table.
C27_FailedSaveKeepsMutation ==
    /\ [][\A p \in SeqTasks :
            (pc[p] = "write" /\ pc'[p] = "done" /\ resp'[p] # "OK")
            => /\ resp'[p] = "SaveFailed"
               /\ tables' = tables
               /\ disk' = disk \/ disk'.file # "json"]_vars
    /\ [](\A p \in SeqTasks :
            (pc[p] = "done" /\ resp[p] = "SaveFailed")
            => LET last == tables[Len(tables)]
               IN  CASE req[p].kind \in {"create", "create_table"} ->
                          AppGet(tables, req[p].name) # <<>>
                     [] req[p].kind = "rename_table" ->
                          /\ AppGet(tables, req[p].new_name) # <<>>
                          /\ last.name = req[p].new_name
                     [] req[p].kind = "insert_column" ->
                          /\ last.name = req[p].name
                          /\ Len(last.columns) > 0
                          /\ last.columns[Len(last.columns)] = req[p].column
                     [] req[p].kind = "insert_row" ->
                          /\ last.name = req[p].name
                          /\ Len(last.rows) > 0
                          /\ last.rows[Len(last.rows)] = Padded(req[p].row, Len(last.columns))
                     [] OTHER -> req[p].kind = "drop_table")

\* C27, its case: an insert_row was answered with the save error, its row is
\* in the collection and db.json does not hold the collection.
C27_MemoryAheadOfDisk ==
    \E p \in SeqTasks :
        /\ pc[p] = "done" /\ req[p].kind = "insert_row" /\ resp[p] = "SaveFailed"
        /\ LET last == tables[Len(tables)]
           IN  last.rows[Len(last.rows)] = Padded(req[p].row, Len(last.columns))
        /\ Load(disk) # tables

\* C28: before the first request is received every task is ready for one, and
\* the collection is what db.json holds when the file is there and parses
\* (serialized again it gives the file's content), and is empty when the file
\* is absent or does not parse.
C28_StartUpLoadsSnapshotOrStartsEmpty ==
    started = 0
    => /\ \A p \in Tasks : pc[p] = "idle"
       /\ IF disk.file = "json"
          THEN Serialize(tables) = disk.doc
          ELSE tables = <<>>

\* C28, its case: the server has started from a snapshot that holds a table
\* with rows, and the collection holds that table.
C28_StartedFromSnapshot ==
    /\ started = 0
    /\ disk.file = "json"
    /\ Len(disk.doc) = 1 /\ Len(tables) = 1
    /\ tables[1].name = disk.doc[1].name
    /\ tables[1].columns = disk.doc[1].columns
    /\ Len(tables[1].rows) = Len(disk.doc[1].rows) /\ Len(tables[1].rows) > 0

Holders == {p \in Tasks : pc[p] \in {"locked", "unlock"}}

\* C30: at most one task is between acquiring the lock and releasing it, and
\* it is the task the lock records. The collection is read into a call's
\* result, or changed, only by the one step the holder takes between
\* acquiring and releasing, which is the whole of the call: a push, a removal
\* of the first table of the name, or a copy.
C30_CallsAreAtomic ==
    /\ [](/\ Cardinality(Holders) <= 1
          /\ \A p \in Tasks : p \in Holders <=> lock = p)
    /\ [][(tables' # tables \/ out' # out \/ dropped' # dropped)
          => \/ \E p \in Tasks : pc[p] \in {"idle", "done"} /\ pc'[p] = "lock"
                                 /\ tables' = tables
             \/ /\ lock \in Tasks /\ lock' = lock
                /\ pc[lock] = "locked" /\ pc'[lock] = "unlock"
                /\ \A q \in Tasks \ {lock} : pc'[q] = pc[q] /\ out'[q] = out[q]
                /\ CASE req[lock].kind = "state.create" ->
                          tables' = Append(tables, TableNew(req[lock].name))
                     [] req[lock].kind = "state.drop_table" ->
                          /\ tables' = AppDrop(tables, req[lock].name)
                          /\ dropped'[lock] = (AppGet(tables, req[lock].name) # <<>>)
                     [] req[lock].kind = "state.get" ->
                          tables' = tables /\ out'[lock] = AppGet(tables, req[lock].name)
                     [] OTHER ->
                          tables' = tables /\ out'[lock] = tables]_vars

\* C30, its case: one task holds the lock, having changed the collection, and
\* another waits for it with its call not yet begun on the collection.
C30_OneHoldsOneWaits ==
    \E p, q \in Tasks :
        /\ p # q
        /\ lock = p /\ pc[p] = "unlock" /\ req[p].kind = "state.create"
        /\ AppGet(tables, req[p].name) # <<>>
        /\ pc[q] = "lock" /\ req[q].kind = "state.drop_table"
        /\ req[q].name = req[p].name

\* C31: under fair scheduling every request a handler has started on is
\* answered: the handler comes to its end and returns a response, whatever the
\* other task is doing meanwhile. The tasks are interchangeable; the first
\* stands for each of them.
C31_EveryRequestIsAnswered ==
    (pc[1] \notin {"idle", "done"}) ~> (pc[1] = "done" /\ resp[1] \notin {"", "Panic"})

\* C32: when the interrupt has arrived and its one save is over, the process
\* has exited: no request is received, no handler takes a step, and neither
\* the collection nor db.json changes any more.
C32_InterruptSavesOnceThenExits ==
    [][pc[SignalTask] = "done" => pc' = pc /\ tables' = tables /\ disk' = disk]_vars

\* what the collection holds while the scenario runs: the one table t
ScenarioTable(columns, rows) == <<[name |-> "t", columns |-> columns, rows |-> rows]>>

\* a mutating request answers OK unless writing db.json failed
Succeeded(r) == r \in {"OK", "SaveFailed"}

\* C33: the end-to-end scenario, run from the empty collection one request
\* after the other, goes as told: after each answered request the collection
\* and the answer are the ones the scenario states - the row [1] is stored as
\* [1, Null], the row [1,2,3] is refused and changes nothing, the select
\* returns exactly [[1, Null]], and the update leaves the one row [1, "9"].
C33_EndToEndScenario ==
    pc[1] = "done" =>
        CASE started = 1 -> tables = <<TableNew("t")>> /\ Succeeded(resp[1])
          [] started = 2 -> tables = ScenarioTable(<<ColA>>, <<>>) /\ Succeeded(resp[1])
          [] started = 3 -> tables = ScenarioTable(<<ColA, ColB>>, <<>>) /\ Succeeded(resp[1])
          [] started = 4 ->
               /\ tables = ScenarioTable(<<ColA, ColB>>, << <<IntV(1), NullV>> >>)
               /\ Succeeded(resp[1])
          [] started = 5 ->
               /\ tables = ScenarioTable(<<ColA, ColB>>, << <<IntV(1), NullV>> >>)
               /\ resp[1] = "RowArityExceeded"
          [] started = 6 ->
               /\ tables = ScenarioTable(<<ColA, ColB>>, << <<IntV(1), NullV>> >>)
               /\ resp[1] = "OK"
               /\ out[1] = << <<IntV(1), NullV>> >>
          [] started = 7 ->
               /\ tables = ScenarioTable(<<ColA, ColB>>, << <<IntV(1), StrV("9")>> >>)
               /\ resp[1] = "OK"

\* the scenario has run to its end with every save written
C33_ScenarioRanThrough ==
    /\ started = Len(Scenario)
    /\ pc[1] = "done"
    /\ resp[1] = "OK"
    /\ tables = ScenarioTable(<<ColA, ColB>>, << <<IntV(1), StrV("9")>> >>)
    /\ disk = JsonFile(Serialize(ScenarioTable(<<ColA, ColB>>, << <<IntV(1), NullV>> >>)))

\* the table a whole update of t gives: the updated columns of the rows that
\* meet the condition hold the update's values, every other cell is as in t
WhollyUpdated(t, condition, updates) ==
    [t EXCEPT !.rows =
        [i \in 1..Len(t.rows) |->
            [k \in 1..Len(t.rows[i]) |->
                IF /\ condition # <<>>
                   /\ Matches(t, t.rows[i], condition[1])
                   /\ k \in UpdatedPositions(t, updates)
                THEN LastUpdateAt(t, updates, k)
                ELSE t.rows[i][k]]]]

\* what a read may see of the table of snapshot s while update request u is
\* served: nothing, the table as it was, or the table wholly updated
Observable(s, u) ==
    {<<>>, s} \cup (IF u.kind = "update_table" /\ s # <<>>
                    THEN {<<WhollyUpdated(s[1], u.condition, u.updates)>>}
                    ELSE {})

\* the request of the task that serves the update, NoRequest before it arrives
TheUpdate ==
    IF \E p \in Tasks : req[p].kind = "update_table"
    THEN req[CHOOSE p \in Tasks : req[p].kind = "update_table"]
    ELSE NoRequest

\* C34: while one update_table is served and other tasks read, the table is
\* in the collection as it was, or not at all, or with every change of the
\* update; a select answers from one of these and GET /tables returns one of
\* these. No read sees some of the matching rows or some of the columns changed.
C34_UpdateSubstitutedAsAUnit ==
    LET seen == Observable(AppGet(Load(disk), "t"), TheUpdate)
    IN  /\ AppGet(tables, "t") \in seen
        /\ \A q \in Tasks :
              (pc[q] = "done" /\ req[q].kind = "get_tables") => out[q] \in seen
        /\ \A q \in Tasks :
              (pc[q] = "done" /\ req[q].kind = "select")
              => \/ resp[q] = "TableNotFound"
                 \/ /\ resp[q] = "OK"
                    /\ \E t \in seen \ {<<>>} :
                          out[q] = select_rows(t[1], req[q].columns, req[q].condition).rows

\* C34, its case: the update has changed two columns in two rows of three, and
\* a GET /tables in flight with it fell between its drop and its create
C34_ReadDuringTwoRowUpdate ==
    \E p, q \in Tasks :
        /\ req[p].kind = "update_table" /\ pc[p] = "done" /\ resp[p] = "OK"
        /\ Len(req[p].updates) = 2 /\ req[p].condition = <<Condition("b", "")>>
        /\ AppGet(tables, "t")[1].rows =
              << <<StrV("7"), StrV("9")>>, <<StrV("7"), StrV("9")>>, <<IntV(3), StrV("x")>> >>
        /\ req[q].kind = "get_tables" /\ pc[q] = "done"
        /\ out[q] = <<>>

\* C35: when a create_table served with no other request in flight has
\* answered OK, the table stored under its name has the requested columns and
\* no others, in the order of the request, each with the flags requested, and
\* it has no rows.
C35_CreateTableStoresRequestedColumns ==
    \A p \in SeqTasks :
        (pc[p] = "done" /\ req[p].kind = "create_table" /\ resp[p] = "OK")
        => /\ Count(tables, req[p].name) = 1
           /\ AppGet(tables, req[p].name) =
                <<[name |-> req[p].name, columns |-> req[p].column_requests, rows |-> <<>>]>>

\* C35, its case: a create_table with two column requests has answered OK
C35_TableCreatedWithTwoColumns ==
    \E p \in SeqTasks :
        /\ pc[p] = "done" /\ req[p].kind = "create_table" /\ resp[p] = "OK"
        /\ Len(req[p].column_requests) = 2
        /\ req[p].column_requests[1] # req[p].column_requests[2]
        /\ AppGet(tables, req[p].name) # <<>>

\* C36: the table in the OK response of create_table is the table stored
\* under the name when the request completes, the columns the request
\* inserted included.
C36_CreateTableReturnsStoredTable ==
    \A p \in SeqTasks :
        (pc[p] = "done" /\ req[p].kind = "create_table" /\ resp[p] = "OK")
        => out[p] = AppGet(tables, req[p].name)

\* the tables of ts whose name is in the set names, in their order
Named(ts, names) == SelectSeq(ts, LAMBDA t : t.name \in names)

\* the tables of ts whose name is not in the set names, in their order
NotNamed(ts, names) == SelectSeq(ts, LAMBDA t : t.name \notin names)

\* a begins b
IsPrefix(a, b) == Len(a) <= Len(b) /\ SubSeq(b, 1, Len(a)) = a

\* the kinds of request that address one table and are to leave the others
ScopedKinds == {"insert_column", "insert_row", "update_table", "select", "drop_table"}

\* C37: no step of an insert_column, insert_row, update_table, select or
\* drop_table addressing X changes a table named otherwise: those tables stay,
\* each with its name, columns and rows. No step of a rename_table(old, new)
\* changes a table named neither old nor new, nor a table that was already
\* named new, nor any table named old but the one it removes. This is so
\* whatever the other task does in between.
C37_RequestsScopedToTheirTable ==
    [][\A p \in Tasks :
          (pc'[p] # pc[p] /\ pc[p] \notin {"idle", "done"})
          => /\ req[p].kind \in ScopedKinds
                => NotNamed(tables', {req[p].name}) = NotNamed(tables, {req[p].name})
             /\ req[p].kind = "rename_table"
                => LET old == req[p].name
                       new == req[p].new_name
                   IN  /\ NotNamed(tables', {old, new}) = NotNamed(tables, {old, new})
                       /\ old # new => IsPrefix(Named(tables, {new}), Named(tables', {new}))
                       /\ old # new =>
                             \/ Named(tables', {old}) = Named(tables, {old})
                             \/ Named(tables', {old}) = Tail(Named(tables, {old}))]_vars

\* C37, its case: t was renamed to u while an insert_row on t was in flight;
\* the insert_row has put its t back, and u holds what t held, untouched
C37_OtherTableKeptItsContent ==
    \E p \in Tasks :
        /\ req[p].kind = "insert_row" /\ req[p].name = "t" /\ pc[p] = "done" /\ resp[p] = "OK"
        /\ AppGet(tables, "t") # <<>>
        /\ AppGet(tables, "u") # <<>>
        /\ AppGet(tables, "u")[1].rows # <<>>
        /\ AppGet(tables, "u")[1].rows # AppGet(tables, "t")[1].rows

\* C38: in no state does a stored row lack a value, or hold Null, at the
\* position of a column that is non_null, whatever insert_column, insert_row
\* and update_table requests have been served.
C38_NonNullColumnsHoldNoNull ==
    \A n \in 1..Len(tables) :
        \A i \in 1..Len(tables[n].rows) :
            \A k \in 1..Len(tables[n].columns) :
                tables[n].columns[k].non_null
                => k <= Len(tables[n].rows[i]) /\ tables[n].rows[i][k] # NullV

\* C39: in no state do two rows of a table have the same string projection
\* at the position of a column that is unique, whatever insert_row and
\* update_table requests have been served.
C39_UniqueColumnsHoldDistinctValues ==
    \A n \in 1..Len(tables) :
        \A k \in 1..Len(tables[n].columns) :
            tables[n].columns[k].unique
            => \A i, j \in 1..Len(tables[n].rows) :
                 (/\ i # j
                  /\ k <= Len(tables[n].rows[i])
                  /\ k <= Len(tables[n].rows[j]))
                 => unwrap_or_default(as_string(tables[n].rows[i][k]))
                      # unwrap_or_default(as_string(tables[n].rows[j][k]))

\* a and b have one shape: the name, the column list, the number of rows and
\* the length of each row, place by place
SameShape(a, b) ==
    /\ a.name = b.name
    /\ a.columns = b.columns
    /\ Len(a.rows) = Len(b.rows)
    /\ \A i \in 1..Len(a.rows) : Len(a.rows[i]) = Len(b.rows[i])

\* row i of b is row i of a, but for the columns the update names
SameRowsElsewhere(a, b, updates) ==
    \A i \in 1..Len(a.rows) :
        \A k \in 1..Len(a.rows[i]) :
            k \notin UpdatedPositions(a, updates) => b.rows[i][k] = a.rows[i][k]

\* C40: an update_table that answers OK leaves the shape of the table as it
\* was: the table it is about to store has the name, the columns, the number
\* of rows, their order and the length of each row of the table stored under
\* the name before, and once it has answered that table is the one stored
\* under the name.
C40_UpdateKeepsShape ==
    /\ [](\A p \in SeqTasks :
            At(p, "update_table", "drop")
            => /\ SameShape(TableRead(p), table[p])
               /\ SameRowsElsewhere(TableRead(p), table[p], req[p].updates))
    /\ [][\A p \in SeqTasks :
            (At(p, "update_table", "create") /\ pc'[p] = "done")
            => AppGet(tables', req[p].name) = <<table[p]>>]_vars
====
